---- MODULE Spec2Model ----
(***************************************************************************)
(* graphql-document-utils: the schema commands `focus` (type reachability  *)
(* from root names, src/src/focus.rs) and `prune` (field-usage closure     *)
(* driven by a query document, src/src/prune.rs), over parsed documents.   *)
(*                                                                         *)
(* Documents are modelled as the syntax trees of graphql_parser: a schema  *)
(* document is a sequence of definitions, a query document a sequence of   *)
(* operations and fragments.  The parser and the printer are the external  *)
(* crate; a printed document is represented by the sequence of its         *)
(* definitions, the empty string by the empty sequence.                    *)
(***************************************************************************)
EXTENDS Integers, Sequences, FiniteSets, TLC

VARIABLES
    schema,         \* the parsed schema document (schema_ast / schema_doc)
    types,          \* focus: the root names given on the command line
    query,          \* prune: the parsed query document (query_doc)
    pc,             \* position in the command being run
    i,              \* index of the next definition (focus) or operation (prune) of the loop
    r,              \* focus: index of the next root
    g,              \* focus: the petgraph graph, [nodes, edges]
    type_node_map,  \* focus: name -> node index
    used,           \* focus: names collected by the searches
    used_fields,    \* prune: type name -> set of names
    round,          \* prune: 1 for the run on the input, 2 for the run on its own output
    first,          \* prune: the output of round 1
    indices_with_keys,  \* sort: the pairs (index, key) of the definitions
    visited,        \* walker: the visited set of walk_schema
    call_stack,     \* walker: the calls of walk_type_definition and walk_type_by_name
                    \* that have not returned, innermost last
    hooks,          \* walker: the calls of the visit hooks so far, in order
    output          \* the document returned by process

vars == <<schema, types, query, pc, i, r, g, type_node_map, used, used_fields,
          round, first, indices_with_keys, visited, call_stack, hooks, output>>

focusVars == <<types, r, g, type_node_map, used>>
pruneVars == <<query, used_fields, round, first>>
sortVars == <<indices_with_keys>>
walkVars == <<visited, call_stack, hooks>>

sortIdle == indices_with_keys = <<>>
walkIdle == visited = {} /\ call_stack = <<>> /\ hooks = <<>>

-----------------------------------------------------------------------------
(* Bounds of the model                                                     *)

MaxDefs == 4         \* focus: definitions in a schema
MaxRoots == 2        \* focus: root names
MaxExtraDefs == 3    \* prune: definitions in a schema besides the Query type
MaxQueryDefs == 2    \* prune: operations and fragments in a query document
MaxDepth == 8        \* prune: nested calls of collect_used_fields the stack holds
MaxSortDefs == 3     \* sort: definitions in a schema
MaxWalkDefs == 5     \* walker: definitions in a schema

-----------------------------------------------------------------------------
(* Syntax trees (graphql_parser::schema)                                   *)

None == <<>>
Some(x) == <<x>>

NamedType(n) == [kind |-> "NamedType", of |-> n]
ListType(t) == [kind |-> "ListType", of |-> t]
NonNullType(t) == [kind |-> "NonNullType", of |-> t]

Field(n, t, args) == [name |-> n, field_type |-> t, arguments |-> args]
InputValue(n, t) == [name |-> n, value_type |-> t]

TypeDef(k, n, impl, fs, ts, vs) ==
    [def |-> "TypeDefinition", kind |-> k, name |-> n,
     implements_interfaces |-> impl, fields |-> fs, types |-> ts, values |-> vs,
     query |-> None, mutation |-> None, subscription |-> None]

ObjectType(n, impl, fs) == TypeDef("Object", n, impl, fs, <<>>, <<>>)
InterfaceType(n, impl, fs) == TypeDef("Interface", n, impl, fs, <<>>, <<>>)
UnionType(n, ts) == TypeDef("Union", n, <<>>, <<>>, ts, <<>>)
EnumType(n, vs) == TypeDef("Enum", n, <<>>, <<>>, <<>>, vs)
InputObjectType(n, fs) == TypeDef("InputObject", n, <<>>, fs, <<>>, <<>>)
ScalarType(n) == TypeDef("Scalar", n, <<>>, <<>>, <<>>, <<>>)

OtherDef(d, n, q, m, s) ==
    [def |-> d, kind |-> "", name |-> n,
     implements_interfaces |-> <<>>, fields |-> <<>>, types |-> <<>>, values |-> <<>>,
     query |-> q, mutation |-> m, subscription |-> s]

SchemaDefinition(q, m, s) == OtherDef("SchemaDefinition", "", q, m, s)
DirectiveDefinition(n) == OtherDef("DirectiveDefinition", n, None, None, None)
TypeExtension(n) == OtherDef("TypeExtension", n, None, None, None)

\* util::schema_type_definition_name: every kind of type definition has a name
schema_type_definition_name(td) == Some(td.name)

\* util::schema_definition_name
schema_definition_name(d) ==
    CASE d.def = "SchemaDefinition" -> None
      [] d.def = "TypeDefinition" -> schema_type_definition_name(d)
      [] d.def = "TypeExtension" -> None
      [] d.def = "DirectiveDefinition" -> Some(d.name)

\* util::named_type: the name left after stripping list and non-null wrappers
RECURSIVE named_type(_)
named_type(ty) == IF ty.kind = "NamedType" THEN ty.of ELSE named_type(ty.of)

Range(s) == {s[k] : k \in DOMAIN s}

\* the subsequence of seq at the positions in s
PickSeq(seq, s) ==
    LET RECURSIVE go(_)
        go(k) == IF k > Len(seq) THEN <<>>
                 ELSE (IF k \in s THEN <<seq[k]>> ELSE <<>>) \o go(k + 1)
    IN go(1)

SubSeqsUpTo(seq, n) ==
    {PickSeq(seq, s) : s \in {t \in SUBSET (1..Len(seq)) : Cardinality(t) <= n}}

-----------------------------------------------------------------------------
(* Reading documents, for the statements about the outputs                 *)

TypeDefsOf(doc) == {d \in Range(doc) : d.def = "TypeDefinition"}
TypeNamesOf(doc) == {d.name : d \in TypeDefsOf(doc)}
NamesOf(doc) == [k \in DOMAIN doc |-> doc[k].name]

Reverse(s) == [k \in DOMAIN s |-> s[Len(s) + 1 - k]]

\* a is b with some of its elements left out
RECURSIVE IsSubSeq(_, _)
IsSubSeq(a, b) ==
    IF a = <<>> THEN TRUE
    ELSE IF b = <<>> THEN FALSE
    ELSE IF Head(a) = Head(b) THEN IsSubSeq(Tail(a), Tail(b))
    ELSE IsSubSeq(a, Tail(b))

\* what identifies a definition whatever fields it keeps
DefKey(d) == <<d.def, d.kind, d.name>>
KeysOf(doc) == [k \in DOMAIN doc |-> DefKey(doc[k])]

\* the schema blocks, directive definitions and type extensions of a document
NonTypeDefs(doc) == SelectSeq(doc, LAMBDA d: d.def # "TypeDefinition")

\* the base types of the fields of a definition, read off the syntax tree
FieldBases(d) ==
    {named_type(IF d.kind = "InputObject" THEN f.value_type ELSE f.field_type) :
        f \in Range(d.fields)}

\* the names reachable from the names in S by a finite path of edges of E
RECURSIVE Closure(_, _)
Closure(S, E) ==
    LET next == S \cup {e[2] : e \in {x \in E : x[1] \in S}}
    IN IF next = S THEN S ELSE Closure(next, E)

-----------------------------------------------------------------------------
(* focus: the inputs                                                       *)

FocusPool ==
    << ObjectType("Query", <<>>, <<Field("user", NamedType("User"), <<>>)>>),
       ObjectType("User", <<>>,
           <<Field("id", NamedType("ID"), <<>>),
             Field("profile", NamedType("Profile"), <<>>)>>),
       ObjectType("Profile", <<>>, <<Field("email", NamedType("String"), <<>>)>>),
       ObjectType("Unused", <<>>, <<Field("x", NamedType("String"), <<>>)>>),
       InterfaceType("Person", <<"Node">>,
           <<Field("name", NamedType("String"), <<>>),
             Field("boss", ListType(NamedType("Person")), <<>>)>>),
       ObjectType("Admin", <<"Person">>,
           <<Field("name", NamedType("String"), <<>>),
             Field("role", NonNullType(NamedType("Role")), <<>>),
             Field("find",
                   NonNullType(ListType(NonNullType(NamedType("Result")))),
                   <<InputValue("filter", NamedType("Filter"))>>)>>),
       ObjectType("Company", <<>>,
           <<Field("employees", ListType(NamedType("Person")), <<>>)>>),
       UnionType("Result", <<"User", "Admin">>),
       EnumType("Role", <<"ADMIN", "GUEST">>),
       InputObjectType("Filter",
           <<InputValue("role", NonNullType(NamedType("Role"))),
             InputValue("and", ListType(NonNullType(NamedType("Filter"))))>>),
       ScalarType("ID"),
       InterfaceType("Node", <<>>, <<Field("id", NamedType("ID"), <<>>)>>),
       DirectiveDefinition("User"),
       SchemaDefinition(Some("Query"), None, None),
       TypeExtension("User") >>

FocusSchemas == SubSeqsUpTo(FocusPool, MaxDefs)

RootNames == <<"Company", "User", "Person", "Filter", "ID", "String">>

RootLists == SubSeqsUpTo(RootNames, MaxRoots)

-----------------------------------------------------------------------------
(* focus::process, lines 11-88: the graph                                  *)

EmptyGraph == [g |-> [nodes |-> <<>>, edges |-> <<>>], type_node_map |-> <<>>]

\* type_node_map.entry(n).or_insert_with(|| g.add_node(n)); node indices count from 1
EnsureNode(st, n) ==
    IF n \in DOMAIN st.type_node_map THEN st
    ELSE [g |-> [st.g EXCEPT !.nodes = Append(@, n)],
          type_node_map |-> st.type_node_map @@ (n :> Len(st.g.nodes) + 1)]

\* g.add_edge(a, b, ()) between the nodes of two names already in the map
AddEdge(st, a, b) ==
    [st EXCEPT !.g.edges = Append(@, <<st.type_node_map[a], st.type_node_map[b]>>)]

\* for field in fields: an edge from the definition to the base type of the field
RECURSIVE FieldEdges(_, _, _, _)
FieldEdges(st, name, tns, k) ==
    IF k > Len(tns) THEN st
    ELSE FieldEdges(AddEdge(EnsureNode(st, tns[k]), name, tns[k]), name, tns, k + 1)

\* mutant: the edges of implements also run from the definition to the interface
RECURSIVE ImplementsEdgesBoth(_, _, _, _)
ImplementsEdgesBoth(st, name, is, k) ==
    IF k > Len(is) THEN st
    ELSE ImplementsEdgesBoth(
             AddEdge(AddEdge(EnsureNode(st, is[k]), is[k], name), name, is[k]),
             name, is, k + 1)

\* mutant: the edges of implements run from the definition to the interface only
RECURSIVE ImplementsEdgesReversed(_, _, _, _)
ImplementsEdgesReversed(st, name, is, k) ==
    IF k > Len(is) THEN st
    ELSE ImplementsEdgesReversed(AddEdge(EnsureNode(st, is[k]), name, is[k]),
                                 name, is, k + 1)

\* for i in implements_interfaces: an edge from the interface to the definition
RECURSIVE ImplementsEdges(_, _, _, _)
ImplementsEdges(st, name, is, k) ==
    IF k > Len(is) THEN st
    ELSE ImplementsEdges(AddEdge(EnsureNode(st, is[k]), is[k], name), name, is, k + 1)

\* mutant: only a field whose type is a bare name gets an edge
FieldTypeNamesNamedOnly(d) ==
    LET ty(f) == IF d.kind = "InputObject" THEN f.value_type ELSE f.field_type
        direct == SelectSeq(d.fields, LAMBDA f: ty(f).kind = "NamedType")
    IN [k \in DOMAIN direct |-> ty(direct[k]).of]

\* mutant: the base types of the arguments of a field get edges as well
FieldTypeNamesWithArguments(d) ==
    LET RECURSIVE go(_)
        go(k) ==
            IF k > Len(d.fields) THEN <<>>
            ELSE IF d.kind = "InputObject"
                 THEN <<named_type(d.fields[k].value_type)>> \o go(k + 1)
                 ELSE <<named_type(d.fields[k].field_type)>>
                      \o [j \in DOMAIN d.fields[k].arguments |->
                             named_type(d.fields[k].arguments[j].value_type)]
                      \o go(k + 1)
    IN go(1)

\* util::named_type(&field.field_type) / (&field.value_type) of each field, in order
FieldTypeNames(d) ==
    [k \in DOMAIN d.fields |->
        IF d.kind = "InputObject" THEN named_type(d.fields[k].value_type)
        ELSE named_type(d.fields[k].field_type)]

\* one iteration of the loop over schema_ast.definitions
AddDefinition(st, d) ==
    IF d.def # "TypeDefinition" THEN st
    ELSE CASE d.kind = "Scalar" -> st
           [] d.kind \in {"Object", "Interface"} ->
                ImplementsEdges(
                    FieldEdges(EnsureNode(st, d.name), d.name, FieldTypeNames(d), 1),
                    d.name, d.implements_interfaces, 1)
           [] d.kind = "Union" ->
                FieldEdges(EnsureNode(st, d.name), d.name, d.types, 1)
           [] d.kind = "Enum" -> EnsureNode(st, d.name)
           [] d.kind = "InputObject" ->
                FieldEdges(EnsureNode(st, d.name), d.name, FieldTypeNames(d), 1)

RECURSIVE BuildGraph(_, _, _)
BuildGraph(st, defs, k) ==
    IF k > Len(defs) THEN st ELSE BuildGraph(AddDefinition(st, defs[k]), defs, k + 1)

\* petgraph's neighbors(a): the targets of a's outgoing edges, latest edge first
Neighbors(gr, a) ==
    LET out == SelectSeq(gr.edges, LAMBDA e: e[1] = a)
    IN [k \in 1..Len(out) |-> out[Len(out) + 1 - k][2]]

\* petgraph::visit::Dfs::next, iterated to the end: pop a node; when it is newly
\* discovered push its undiscovered successors and yield it
RECURSIVE Dfs(_, _, _, _)
Dfs(gr, stack, discovered, yielded) ==
    IF stack = <<>> THEN yielded
    ELSE LET node == stack[Len(stack)]
             rest == SubSeq(stack, 1, Len(stack) - 1)
         IN IF node \in discovered THEN Dfs(gr, rest, discovered, yielded)
            ELSE LET d2 == discovered \cup {node}
                     succ == SelectSeq(Neighbors(gr, node), LAMBDA s: s \notin d2)
                 IN Dfs(gr, rest \o succ, d2, Append(yielded, gr.nodes[node]))

\* mutant: a root without a node is searched from the first node of the graph
SearchRootFallback(st, t) ==
    IF t \in DOMAIN st.type_node_map
    THEN Range(Dfs(st.g, <<st.type_node_map[t]>>, {}, <<>>))
    ELSE IF st.g.nodes = <<>> THEN {} ELSE Range(Dfs(st.g, <<1>>, {}, <<>>))

\* lines 92-98: the names a search from root t yields; nothing when t has no node
SearchRoot(st, t) ==
    IF t \in DOMAIN st.type_node_map
    THEN Range(Dfs(st.g, <<st.type_node_map[t]>>, {}, <<>>))
    ELSE {}

RECURSIVE SearchRoots(_, _, _)
SearchRoots(st, ts, k) ==
    IF k > Len(ts) THEN {} ELSE SearchRoot(st, ts[k]) \cup SearchRoots(st, ts, k + 1)

\* mutant: the retained definitions come out last first
strip_unused_types_reversed(doc, used_types) ==
    LET kept == SelectSeq(doc, LAMBDA d:
                    LET name == schema_definition_name(d)
                    IN IF name = None THEN FALSE ELSE name[1] \in used_types)
    IN [k \in DOMAIN kept |-> kept[Len(kept) + 1 - k]]

\* focus::strip_unused_types: the definitions whose name is in used_types, in order
strip_unused_types(doc, used_types) ==
    SelectSeq(doc, LAMBDA d:
        LET name == schema_definition_name(d)
        IN IF name = None THEN FALSE ELSE name[1] \in used_types)

\* focus::process as a function of its inputs
focus_process(doc, ts) ==
    LET st == BuildGraph(EmptyGraph, doc, 1)
        u == SearchRoots(st, ts, 1)
    IN IF u = {} THEN <<>> ELSE strip_unused_types(doc, u)

-----------------------------------------------------------------------------
(* focus: the command as a state machine                                   *)

pruneIdle == /\ query = <<>> /\ used_fields = <<>> /\ round = 0 /\ first = <<>>

FocusInit ==
    /\ schema \in FocusSchemas
    /\ types \in RootLists
    /\ pc = "focus"
    /\ i = 1
    /\ r = 1
    /\ g = EmptyGraph.g
    /\ type_node_map = EmptyGraph.type_node_map
    /\ used = {}
    /\ output = <<>>
    /\ pruneIdle
    /\ sortIdle
    /\ walkIdle

\* lines 14-88: one definition of the schema enters the graph
FocusAddDefinition ==
    /\ pc = "focus"
    /\ i <= Len(schema)
    /\ LET st == AddDefinition([g |-> g, type_node_map |-> type_node_map], schema[i])
       IN /\ g' = st.g
          /\ type_node_map' = st.type_node_map
    /\ i' = i + 1
    /\ UNCHANGED <<schema, types, query, pc, r, used, used_fields, round, first, output,
                   sortVars, walkVars>>

\* lines 90-99: with the graph built, the search from one root adds the names it yields
FocusSearchRoot ==
    /\ pc = "focus"
    /\ i > Len(schema)
    /\ r <= Len(types)
    /\ used' = used \cup SearchRoot([g |-> g, type_node_map |-> type_node_map], types[r])
    /\ r' = r + 1
    /\ UNCHANGED <<schema, types, query, pc, i, g, type_node_map, used_fields,
                   round, first, output,
                   sortVars, walkVars>>

\* lines 101-103: nothing was found, the result is the empty string
FocusReturnEmpty ==
    /\ pc = "focus"
    /\ i > Len(schema)
    /\ r > Len(types)
    /\ used = {}
    /\ output' = <<>>
    /\ pc' = "done"
    /\ UNCHANGED <<schema, types, query, i, r, g, type_node_map, used, used_fields,
                   round, first,
                   sortVars, walkVars>>

\* line 105: the retained definitions are printed
FocusStrip ==
    /\ pc = "focus"
    /\ i > Len(schema)
    /\ r > Len(types)
    /\ used # {}
    /\ output' = strip_unused_types(schema, used)
    /\ pc' = "done"
    /\ UNCHANGED <<schema, types, query, i, r, g, type_node_map, used, used_fields,
                   round, first,
                   sortVars, walkVars>>

FocusNext ==
    \/ FocusAddDefinition
    \/ FocusSearchRoot
    \/ FocusReturnEmpty
    \/ FocusStrip

SpecFocus == FocusInit /\ [][FocusNext]_vars

FocusDone == pc = "done" /\ round = 0

\* the steps of the command compute focus::process
FocusStepsAgree == FocusDone => output = focus_process(schema, types)

-----------------------------------------------------------------------------
(* Syntax trees (graphql_parser::query)                                    *)

FieldSel(n, sels) ==
    [sel |-> "Field", name |-> n, type_condition |-> None, selection_set |-> sels]
FragmentSpread(n) ==
    [sel |-> "FragmentSpread", name |-> n, type_condition |-> None,
     selection_set |-> <<>>]
InlineFragment(tc, sels) ==
    [sel |-> "InlineFragment", name |-> "", type_condition |-> tc,
     selection_set |-> sels]

\* op is Query, Mutation, Subscription or SelectionSet (a bare selection set)
Operation(op, sels) ==
    [qdef |-> "Operation", op |-> op, name |-> "", type_condition |-> "",
     selection_set |-> sels]
FragmentDefinition(n, tc, sels) ==
    [qdef |-> "Fragment", op |-> "", name |-> n, type_condition |-> tc,
     selection_set |-> sels]

-----------------------------------------------------------------------------
(* prune: the inputs                                                       *)

QueryType ==
    ObjectType("Query", <<>>,
        <<Field("user", NamedType("User"), <<>>),
          Field("person", NamedType("Person"), <<>>),
          Field("search", NamedType("Result"),
                <<InputValue("filter", NamedType("Filter"))>>),
          Field("created", NonNullType(NamedType("Date")), <<>>),
          Field("Filter", NamedType("String"), <<>>)>>)

PruneExtras ==
    << InterfaceType("Person", <<>>,
           <<Field("id", NonNullType(NamedType("ID")), <<>>),
             Field("name", NamedType("String"), <<>>)>>),
       ObjectType("User", <<"Person">>,
           <<Field("id", NonNullType(NamedType("ID")), <<>>),
             Field("name", NamedType("String"), <<>>),
             Field("user_name", NamedType("String"), <<>>),
             Field("friend", NamedType("User"), <<>>)>>),
       DirectiveDefinition("auth"),
       ObjectType("Guest", <<"Person">>,
           <<Field("id", NonNullType(NamedType("ID")), <<>>),
             Field("name", NamedType("String"), <<>>)>>),
       UnionType("Result", <<"User", "Guest">>),
       InputObjectType("Filter",
           <<InputValue("role", NamedType("Role")),
             InputValue("and", ListType(NonNullType(NamedType("Filter"))))>>),
       EnumType("Role", <<"ADMIN", "GUEST">>),
       ScalarType("Date"),
       ObjectType("Mutation", <<>>,
           <<Field("rename", NamedType("User"),
                   <<InputValue("to", NamedType("String"))>>)>>),
       SchemaDefinition(Some("Root"), None, None),
       TypeExtension("User") >>

PruneSchemas == {<<QueryType>> \o extra : extra \in SubSeqsUpTo(PruneExtras, MaxExtraDefs)}

QueryPool ==
    << \* query { user { id name } }
       Operation("Query",
           <<FieldSel("user", <<FieldSel("id", <<>>), FieldSel("name", <<>>)>>)>>),
       \* query { person { id name ... on User { user_name } } }
       Operation("Query",
           <<FieldSel("person",
               <<FieldSel("id", <<>>), FieldSel("name", <<>>),
                 InlineFragment(Some("User"), <<FieldSel("user_name", <<>>)>>)>>)>>),
       \* query { user { id ... { name } } }
       Operation("Query",
           <<FieldSel("user",
               <<FieldSel("id", <<>>),
                 InlineFragment(None, <<FieldSel("name", <<>>)>>)>>)>>),
       \* query { search { ... on User { id } ... on Guest { name } } created }
       Operation("Query",
           <<FieldSel("search",
               <<InlineFragment(Some("User"), <<FieldSel("id", <<>>)>>),
                 InlineFragment(Some("Guest"), <<FieldSel("name", <<>>)>>)>>),
             FieldSel("created", <<>>)>>),
       \* query { user { user_name ...UserFields } }
       Operation("Query",
           <<FieldSel("user",
               <<FieldSel("user_name", <<>>), FragmentSpread("UserFields")>>)>>),
       \* mutation { rename { id } }
       Operation("Mutation", <<FieldSel("rename", <<FieldSel("id", <<>>)>>)>>),
       \* query { person { ... on User { user_name } id ... on User { name } } }
       Operation("Query",
           <<FieldSel("person",
               <<InlineFragment(Some("User"), <<FieldSel("user_name", <<>>)>>),
                 FieldSel("id", <<>>),
                 InlineFragment(Some("User"), <<FieldSel("name", <<>>)>>)>>)>>),
       \* { user { friend { id } } }
       Operation("SelectionSet",
           <<FieldSel("user", <<FieldSel("friend", <<FieldSel("id", <<>>)>>)>>)>>),
       \* subscription { user { id } }
       Operation("Subscription", <<FieldSel("user", <<FieldSel("id", <<>>)>>)>>),
       \* fragment UserFields on User { id friend { name } }
       FragmentDefinition("UserFields", "User",
           <<FieldSel("id", <<>>), FieldSel("friend", <<FieldSel("name", <<>>)>>)>>),
       \* query { user { ...Loop } }
       Operation("Query", <<FieldSel("user", <<FragmentSpread("Loop")>>)>>),
       \* fragment Loop on User { name ...Loop }
       FragmentDefinition("Loop", "User",
           <<FieldSel("name", <<>>), FragmentSpread("Loop")>>) >>

Queries == SubSeqsUpTo(QueryPool, MaxQueryDefs)

-----------------------------------------------------------------------------
(* prune::process                                                          *)

\* type_map.get(name): the last type definition of that name, if any
TypeMapGet(doc, name) ==
    LET hits == SelectSeq(doc, LAMBDA d: d.def = "TypeDefinition" /\ d.name = name)
    IN IF hits = <<>> THEN None ELSE Some(hits[Len(hits)])

\* fragments.get(name): the last fragment definition of that name, if any
FragmentGet(q, name) ==
    LET hits == SelectSeq(q, LAMBDA d: d.qdef = "Fragment" /\ d.name = name)
    IN IF hits = <<>> THEN None ELSE Some(hits[Len(hits)])

\* prune::detect_root_types: the names of the last schema block that gives them
RECURSIVE detect_root_types(_, _, _)
detect_root_types(doc, k, root) ==
    IF k > Len(doc) THEN root
    ELSE IF doc[k].def # "SchemaDefinition" THEN detect_root_types(doc, k + 1, root)
    ELSE detect_root_types(doc, k + 1,
            [query |-> IF doc[k].query # None THEN doc[k].query[1] ELSE root.query,
             mutation |-> IF doc[k].mutation # None THEN doc[k].mutation ELSE root.mutation,
             subscription |-> IF doc[k].subscription # None THEN doc[k].subscription
                              ELSE root.subscription])

RootTypes(doc) ==
    detect_root_types(doc, 1, [query |-> "Query", mutation |-> None, subscription |-> None])

\* lines 54-65: the root type of an operation
OpType(doc, op) ==
    LET root == RootTypes(doc)
    IN CASE op.op = "Query" -> root.query
         [] op.op = "Mutation" ->
                IF root.mutation # None THEN root.mutation[1] ELSE "Mutation"
         [] op.op = "Subscription" ->
                IF root.subscription # None THEN root.subscription[1] ELSE "Subscription"
         [] op.op = "SelectionSet" -> root.query

\* prune::type_fields
type_fields(td) ==
    IF td.kind \in {"Object", "Interface"} THEN Some(td.fields) ELSE None

\* HashMap::insert(k, v): the entry of k is replaced
MapInsert(m, k, v) == (k :> v) @@ m

\* HashMap::entry(k).or_default(): an absent entry becomes the empty set
MapEntryOrDefault(m, k) == IF k \in DOMAIN m THEN m ELSE (k :> {}) @@ m

\* prune::collect_input_types: the base type of the argument enters used_types and,
\* newly entered and an input object, so do those of its fields
RECURSIVE collect_input_types(_, _, _)
RECURSIVE CollectInputFields(_, _, _, _)
collect_input_types(arg, used_types, doc) ==
    LET inner == named_type(arg.value_type)
        td == TypeMapGet(doc, inner)
    IN IF inner \in used_types THEN used_types
       ELSE IF td # None /\ td[1].kind = "InputObject"
            THEN CollectInputFields(td[1].fields, 1, used_types \cup {inner}, doc)
            ELSE used_types \cup {inner}

CollectInputFields(fs, k, used_types, doc) ==
    IF k > Len(fs) THEN used_types
    ELSE CollectInputFields(fs, k + 1, collect_input_types(fs[k], used_types, doc), doc)

\* lines 179-181: for arg in &schema_field.arguments
RECURSIVE CollectArguments(_, _, _, _)
CollectArguments(args, k, used_types, doc) ==
    IF k > Len(args) THEN used_types
    ELSE CollectArguments(args, k + 1, collect_input_types(args[k], used_types, doc), doc)

\* prune::collect_used_fields; uf is [map, overflow], overflow set once the nesting
\* of the calls passes what the stack holds
RECURSIVE collect_used_fields(_, _, _, _, _, _)
RECURSIVE CollectSelections(_, _, _, _, _, _, _)
collect_used_fields(parent_type, selection_set, doc, uf, q, depth) ==
    IF depth > MaxDepth THEN [uf EXCEPT !.overflow = TRUE]
    ELSE IF TypeMapGet(doc, parent_type) = None THEN uf
    ELSE CollectSelections(parent_type, selection_set, 1, doc, uf, q, depth)

\* lines 164-191: a field selection
CollectField(parent_type, s, doc, uf, q, depth) ==
    LET fields == type_fields(TypeMapGet(doc, parent_type)[1])
        found == IF fields = None THEN <<>>
                 ELSE SelectSeq(fields[1], LAMBDA f: f.name = s.name)
    IN IF found = <<>> THEN uf
       ELSE LET schema_field == found[1]
                m1 == MapEntryOrDefault(uf.map, parent_type)
                used_types == CollectArguments(schema_field.arguments, 1,
                                               m1[parent_type] \cup {s.name}, doc)
                m2 == MapInsert(m1, parent_type, used_types)
            IN collect_used_fields(named_type(schema_field.field_type),
                                   s.selection_set, doc, [uf EXCEPT !.map = m2],
                                   q, depth + 1)

\* lines 192-204: a fragment spread
CollectFragmentSpread(parent_type, s, doc, uf, q, depth) ==
    LET frag == FragmentGet(q, s.name)
    IN IF frag = None THEN uf
       ELSE collect_used_fields(frag[1].type_condition, frag[1].selection_set, doc,
                [uf EXCEPT !.map = MapInsert(uf.map, frag[1].type_condition, {})],
                q, depth + 1)

\* lines 205-222: an inline fragment
CollectInlineFragment(parent_type, s, doc, uf, q, depth) ==
    LET type_name == IF s.type_condition # None THEN s.type_condition[1]
                     ELSE parent_type
    IN collect_used_fields(type_name, s.selection_set, doc,
            [uf EXCEPT !.map = MapInsert(uf.map, type_name, {})], q, depth + 1)

CollectSelections(parent_type, sels, k, doc, uf, q, depth) ==
    IF k > Len(sels) \/ uf.overflow THEN uf
    ELSE CollectSelections(parent_type, sels, k + 1, doc,
            CASE sels[k].sel = "Field" ->
                    CollectField(parent_type, sels[k], doc, uf, q, depth)
              [] sels[k].sel = "FragmentSpread" ->
                    CollectFragmentSpread(parent_type, sels[k], doc, uf, q, depth)
              [] sels[k].sel = "InlineFragment" ->
                    CollectInlineFragment(parent_type, sels[k], doc, uf, q, depth),
            q, depth)

\* lines 53-74: one operation of the query document
CollectOperation(doc, q, op, uf) ==
    LET op_type == OpType(doc, op)
    IN collect_used_fields(op_type, op.selection_set, doc,
            [uf EXCEPT !.map = MapInsert(uf.map, op_type, {})], q, 1)

UsedIn(m, k, n) == k \in DOMAIN m /\ n \in m[k]

\* lines 82-113: an object is kept when it or an interface it implements has an
\* entry, with the fields recorded for it or for one of its interfaces
PruneObject(obj, m) ==
    IF obj.name \in DOMAIN m \/ \E n \in Range(obj.implements_interfaces) : n \in DOMAIN m
    THEN <<[obj EXCEPT !.fields =
              SelectSeq(@, LAMBDA f:
                  \/ UsedIn(m, obj.name, f.name)
                  \/ \E n \in Range(obj.implements_interfaces) : UsedIn(m, n, f.name))]>>
    ELSE <<>>

\* lines 114-132: an interface with an entry is kept with the fields recorded for it
PruneInterface(iface, m) ==
    IF iface.name \in DOMAIN m
    THEN <<[iface EXCEPT !.fields =
              SelectSeq(@, LAMBDA f: UsedIn(m, iface.name, f.name))]>>
    ELSE <<>>

\* mutant: only type definitions are output
PruneDefinitionTypesOnly(d, m) ==
    IF d.def = "TypeDefinition"
    THEN CASE d.kind = "Object" -> PruneObject(d, m)
           [] d.kind = "Interface" -> PruneInterface(d, m)
           [] OTHER -> IF d.name \in DOMAIN m THEN <<d>> ELSE <<>>
    ELSE <<>>

\* lines 80-141: what one definition of the schema contributes to the output
PruneDefinition(d, m) ==
    IF d.def = "TypeDefinition"
    THEN CASE d.kind = "Object" -> PruneObject(d, m)
           [] d.kind = "Interface" -> PruneInterface(d, m)
           [] OTHER -> IF d.name \in DOMAIN m THEN <<d>> ELSE <<>>
    ELSE <<d>>

RECURSIVE PruneDefinitions(_, _, _)
PruneDefinitions(doc, k, m) ==
    IF k > Len(doc) THEN <<>>
    ELSE PruneDefinition(doc[k], m) \o PruneDefinitions(doc, k + 1, m)

RECURSIVE CollectOperations(_, _, _, _)
CollectOperations(doc, q, k, uf) ==
    IF k > Len(q) \/ uf.overflow THEN uf
    ELSE CollectOperations(doc, q, k + 1,
            IF q[k].qdef = "Operation" THEN CollectOperation(doc, q, q[k], uf) ELSE uf)

\* prune::process as a function of its inputs (without a stack overflow)
prune_process(doc, q) ==
    PruneDefinitions(doc, 1,
        CollectOperations(doc, q, 1, [map |-> <<>>, overflow |-> FALSE]).map)

-----------------------------------------------------------------------------
(* prune: the command as a state machine, run on the schema and then once  *)
(* more on its own output with the same query                              *)

focusIdle ==
    /\ types = <<>> /\ r = 1 /\ g = EmptyGraph.g
    /\ type_node_map = EmptyGraph.type_node_map /\ used = {}

PruneInit ==
    /\ schema \in PruneSchemas
    /\ query \in Queries
    /\ pc = "prune"
    /\ i = 1
    /\ used_fields = <<>>
    /\ round = 1
    /\ first = <<>>
    /\ output = <<>>
    /\ focusIdle
    /\ sortIdle
    /\ walkIdle

\* lines 52-75: the next definition of the query document is an operation
PruneOperation ==
    /\ pc = "prune"
    /\ i <= Len(query)
    /\ query[i].qdef = "Operation"
    /\ LET uf == CollectOperation(schema, query, query[i],
                                  [map |-> used_fields, overflow |-> FALSE])
       IN /\ ~uf.overflow
          /\ used_fields' = uf.map
    /\ i' = i + 1
    /\ UNCHANGED <<schema, types, query, pc, r, g, type_node_map, used, round, first,
                   output,
                   sortVars, walkVars>>

\* lines 192-204: the calls of collect_used_fields nest without end and exhaust the
\* stack; the process is aborted without a result
PruneOverflow ==
    /\ pc = "prune"
    /\ i <= Len(query)
    /\ query[i].qdef = "Operation"
    /\ CollectOperation(schema, query, query[i],
                        [map |-> used_fields, overflow |-> FALSE]).overflow
    /\ pc' = "overflow"
    /\ UNCHANGED <<schema, types, query, i, r, g, type_node_map, used, used_fields,
                   round, first, output,
                   sortVars, walkVars>>

\* lines 52-53: a fragment definition is passed over
PruneSkipFragment ==
    /\ pc = "prune"
    /\ i <= Len(query)
    /\ query[i].qdef = "Fragment"
    /\ i' = i + 1
    /\ UNCHANGED <<schema, types, query, pc, r, g, type_node_map, used, used_fields,
                   round, first, output,
                   sortVars, walkVars>>

\* lines 77-148: the definitions are filtered and printed
PruneFilter ==
    /\ pc = "prune"
    /\ i > Len(query)
    /\ output' = PruneDefinitions(schema, 1, used_fields)
    /\ first' = IF round = 1 THEN output' ELSE first
    /\ pc' = "done"
    /\ UNCHANGED <<schema, types, query, i, r, g, type_node_map, used, used_fields,
                   round,
                   sortVars, walkVars>>

\* the output of the first run is given to prune again with the same query
PruneAgain ==
    /\ pc = "done"
    /\ round = 1
    /\ schema' = output
    /\ round' = 2
    /\ pc' = "prune"
    /\ i' = 1
    /\ used_fields' = <<>>
    /\ output' = <<>>
    /\ UNCHANGED <<types, query, r, g, type_node_map, used, first,
                   sortVars, walkVars>>

PruneNext ==
    \/ PruneOperation
    \/ PruneOverflow
    \/ PruneSkipFragment
    \/ PruneFilter
    \/ PruneAgain

SpecPrune == PruneInit /\ [][PruneNext]_vars

PruneDone == pc = "done" /\ round = 1
PruneDoneAgain == pc = "done" /\ round = 2

\* the steps of the command compute prune::process
PruneStepsAgree ==
    /\ PruneDone => output = prune_process(schema, query)
    /\ PruneDoneAgain => output = prune_process(first, query)

-----------------------------------------------------------------------------
(* prune: properties of the output                                         *)

\* the pairs (T, f) of the field selections the walk of a selection set reaches
\* with a parent type T that is a defined Object or Interface declaring a field f
RECURSIVE Walk(_, _, _, _, _)
Walk(parent_type, sels, doc, q, depth) ==
    IF depth > MaxDepth \/ TypeMapGet(doc, parent_type) = None THEN {}
    ELSE UNION {
        LET s == sels[k]
            td == TypeMapGet(doc, parent_type)[1]
            found == SelectSeq(td.fields, LAMBDA f: f.name = s.name)
            frag == FragmentGet(q, s.name)
        IN CASE s.sel = "Field" ->
                    IF td.kind \in {"Object", "Interface"} /\ found # <<>>
                    THEN {<<parent_type, s.name>>}
                         \cup Walk(named_type(found[1].field_type), s.selection_set,
                                   doc, q, depth + 1)
                    ELSE {}
             [] s.sel = "FragmentSpread" ->
                    IF frag = None THEN {}
                    ELSE Walk(frag[1].type_condition, frag[1].selection_set,
                              doc, q, depth + 1)
             [] s.sel = "InlineFragment" ->
                    Walk(IF s.type_condition # None THEN s.type_condition[1]
                         ELSE parent_type,
                         s.selection_set, doc, q, depth + 1)
        : k \in DOMAIN sels}

\* the pairs the operations of the query document select
Selected(doc, q) ==
    UNION {Walk(OpType(doc, q[k]), q[k].selection_set, doc, q, 1) :
              k \in {j \in DOMAIN q : q[j].qdef = "Operation"}}

SelectedFor(obj, f, sel) ==
    \/ <<obj.name, f.name>> \in sel
    \/ \E n \in Range(obj.implements_interfaces) : <<n, f.name>> \in sel

\* C2: for every field selection the walk of an operation reaches with a parent
\* type T that declares the field, T is retained in the output of prune and still
\* has that field.
C2_SelectedFieldsRetained ==
    PruneDone =>
        \A p \in Selected(schema, query) :
            \E d \in TypeDefsOf(output) :
                d.name = p[1] /\ \E f \in Range(d.fields) : f.name = p[2]

\* C3: a field kept in a retained Object was selected against the object or an
\* interface it implements; a field kept in a retained Interface was selected
\* against the interface.
C3_OnlySelectedFieldsKept ==
    PruneDone =>
        LET sel == Selected(schema, query)
        IN \A d \in TypeDefsOf(output) :
              /\ d.kind = "Object" => \A f \in Range(d.fields) : SelectedFor(d, f, sel)
              /\ d.kind = "Interface" =>
                    \A f \in Range(d.fields) : <<d.name, f.name>> \in sel

\* C4: every Object implementing an interface the query selects a field of is
\* retained, with exactly its fields selected against it or against an interface
\* it implements.
C4_ImplementersFiltered ==
    PruneDone =>
        LET sel == Selected(schema, query)
        IN \A t \in TypeDefsOf(schema), o \in TypeDefsOf(schema) :
              ( /\ t.kind = "Interface"
                /\ \E p \in sel : p[1] = t.name
                /\ o.kind = "Object"
                /\ t.name \in Range(o.implements_interfaces) )
              => [o EXCEPT !.fields = SelectSeq(@, LAMBDA f: SelectedFor(o, f, sel))]
                    \in Range(output)

\* input object to the base type of each of its fields
InputEdges(doc) ==
    UNION {{<<d.name, b>> : b \in FieldBases(d)} :
              d \in {t \in TypeDefsOf(doc) : t.kind = "InputObject"}}

\* C8: the base type of every argument of a selected field and, through input
\* objects, of every field of it, transitively, is retained whole when the schema
\* defines it.
C8_InputTypesRetained ==
    PruneDone =>
        \A p \in Selected(schema, query) :
            LET td == TypeMapGet(schema, p[1])[1]
                fd == SelectSeq(td.fields, LAMBDA f: f.name = p[2])[1]
                args == {named_type(a.value_type) : a \in Range(fd.arguments)}
            IN \A t \in TypeDefsOf(schema) :
                  t.name \in Closure(args, InputEdges(schema)) => t \in Range(output)

\* C9: no dangling reference: the base type of every kept field of a retained
\* Object or Interface, and every interface a retained Object implements, is
\* retained when the schema defines it.
C9_NoDanglingReference ==
    PruneDone =>
        \A d \in TypeDefsOf(output) :
            /\ d.kind \in {"Object", "Interface"} =>
                  \A f \in Range(d.fields) :
                      named_type(f.field_type) \in TypeNamesOf(schema)
                          => named_type(f.field_type) \in TypeNamesOf(output)
            /\ d.kind = "Object" =>
                  \A n \in Range(d.implements_interfaces) :
                      n \in TypeNamesOf(schema) => n \in TypeNamesOf(output)

\* the names of the fragments a selection set spreads, at any depth
RECURSIVE SpreadsIn(_)
SpreadsIn(sels) ==
    UNION {(IF sels[k].sel = "FragmentSpread" THEN {sels[k].name} ELSE {})
           \cup SpreadsIn(sels[k].selection_set) : k \in DOMAIN sels}

\* fragment name to the name of each fragment it spreads
SpreadEdges(q) ==
    UNION {{<<d.name, n>> : n \in SpreadsIn(d.selection_set)} :
              d \in {x \in Range(q) : x.qdef = "Fragment"}}

\* some fragment of the query document spreads itself, directly or through others
CyclicFragments(q) ==
    \E d \in Range(q) :
        /\ d.qdef = "Fragment"
        /\ d.name \in Closure(SpreadsIn(d.selection_set), SpreadEdges(q))

\* the stack is exhausted by query documents with cyclic fragments only
PruneOverflowOnlyOnCycle == pc = "overflow" => CyclicFragments(query)

\* C12: prune terminates with a result for every schema and query document, cyclic
\* fragments included: a run is at work on its finite lists or has returned its
\* result, it is never aborted.
C12_PruneTerminates ==
    \/ pc = "prune" /\ i <= Len(query) + 1
    \/ pc = "done"

\* C10: prune run on its own non-empty output with the same query returns that
\* output again.
C10_PruneIdempotent ==
    (PruneDoneAgain /\ first # <<>>) => output = first

\* C17: every schema block, directive definition and type extension of the schema
\* is in the output of prune unchanged, and the definitions of the output are in
\* the order the schema has them.
C17_NonTypeDefsPassThrough ==
    (PruneDone \/ PruneDoneAgain) =>
        /\ NonTypeDefs(output) = NonTypeDefs(schema)
        /\ IsSubSeq(KeysOf(output), KeysOf(schema))

\* a type is dropped, a type is kept with fewer fields, and a definition that is
\* not a type stands between two retained types
C17_Witness ==
    /\ PruneDone
    /\ \E a, b, c \in DOMAIN output :
          /\ a < b /\ b < c
          /\ output[a].def = "TypeDefinition"
          /\ output[b].def # "TypeDefinition"
          /\ output[c].def = "TypeDefinition"
    /\ Len(output) < Len(schema)
    /\ \E d \in TypeDefsOf(output) : \E e \in TypeDefsOf(schema) :
          d.name = e.name /\ Len(d.fields) < Len(e.fields)

-----------------------------------------------------------------------------
(* focus: properties of the output                                         *)

\* the edge rules: object, interface and input object to the base type of a field,
\* union to member, interface (a name in an implements list) to the implementing type
EdgeRules(doc) ==
    UNION {
        (IF d.kind \in {"Object", "Interface", "InputObject"}
         THEN {<<d.name, b>> : b \in FieldBases(d)} ELSE {})
        \cup (IF d.kind = "Union" THEN {<<d.name, m>> : m \in Range(d.types)} ELSE {})
        \cup (IF d.kind \in {"Object", "Interface"}
              THEN {<<n, d.name>> : n \in Range(d.implements_interfaces)} ELSE {})
        : d \in TypeDefsOf(doc)}

ExampleSchema == PickSeq(FocusPool, {1, 2, 3, 4})

\* C1: every type definition in the output of focus is reachable from a given root
\* by a finite path of the edge rules (field base type, union member, interface to
\* implementer); for {Query, User, Profile, Unused} and roots [User] the output
\* holds exactly User and Profile.
C1_FocusReachable ==
    FocusDone =>
        /\ TypeNamesOf(output) \subseteq Closure(Range(types), EdgeRules(schema))
        /\ (schema = ExampleSchema /\ types = <<"User">>)
               => NamesOf(output) = <<"User", "Profile">>

C1_Witness ==
    /\ FocusDone
    /\ schema = ExampleSchema
    /\ types = <<"User">>
    /\ NamesOf(output) = <<"User", "Profile">>

\* C5: every Object of the schema that implements an interface whose definition is
\* in the output of focus is in the output too.
C5_InterfacePullsImplementers ==
    FocusDone =>
        \A d \in TypeDefsOf(output) : d.kind = "Interface" =>
            \A o \in TypeDefsOf(schema) :
                (o.kind = "Object" /\ d.name \in Range(o.implements_interfaces))
                    => o \in Range(output)

\* an interface reached through a field of another type, with an implementer
C5_Witness ==
    /\ FocusDone
    /\ \E d \in TypeDefsOf(output), o \in TypeDefsOf(output) :
          /\ d.kind = "Interface"
          /\ d.name \notin Range(types)
          /\ o.kind = "Object"
          /\ o.name \notin Range(types)
          /\ d.name \in Range(o.implements_interfaces)

\* C6: every interface that an Object or Interface of the output declares in its
\* implements list and that the schema defines is in the output.
C6_ImplementerPullsInterface ==
    FocusDone =>
        \A d \in TypeDefsOf(output) : d.kind \in {"Object", "Interface"} =>
            \A n \in Range(d.implements_interfaces) :
                \A t \in TypeDefsOf(schema) : t.name = n => t \in Range(output)

\* every field type replaced by its base name
Unwrapped(doc) ==
    [k \in DOMAIN doc |->
        [doc[k] EXCEPT !.fields =
            [j \in DOMAIN @ |->
                IF doc[k].kind = "InputObject"
                THEN [@[j] EXCEPT !.value_type = NamedType(named_type(@))]
                ELSE [@[j] EXCEPT !.field_type = NamedType(named_type(@))]]]]

\* every field type replaced by [Base!]!
Rewrapped(doc) ==
    [k \in DOMAIN doc |->
        [doc[k] EXCEPT !.fields =
            [j \in DOMAIN @ |->
                IF doc[k].kind = "InputObject"
                THEN [@[j] EXCEPT !.value_type =
                        NonNullType(ListType(NonNullType(NamedType(named_type(@)))))]
                ELSE [@[j] EXCEPT !.field_type =
                        NonNullType(ListType(NonNullType(NamedType(named_type(@)))))]]]]

\* C7: for every field of an Object, Interface or InputObject in the output of
\* focus, the definition of the field's base type, when the schema has one, is in
\* the output; and the list and non-null wrappers of the field types do not change
\* which definitions are output.
C7_FieldBaseTypesPresent ==
    FocusDone =>
        /\ \A d \in TypeDefsOf(output) :
              d.kind \in {"Object", "Interface", "InputObject"} =>
                \A t \in TypeDefsOf(schema) :
                    t.name \in FieldBases(d) => t \in Range(output)
        /\ Unwrapped(output) = focus_process(Unwrapped(schema), types)
        /\ Rewrapped(output) = focus_process(Rewrapped(schema), types)

\* a field with a wrapped type whose base type is defined and was not a root
C7_Witness ==
    /\ FocusDone
    /\ \E d \in TypeDefsOf(output) : \E f \in Range(d.fields) :
          /\ d.kind \in {"Object", "Interface"}
          /\ f.field_type.kind # "NamedType"
          /\ named_type(f.field_type) \notin Range(types)
          /\ named_type(f.field_type) # d.name
          /\ named_type(f.field_type) \in TypeNamesOf(output)

\* C11: focus run on its own non-empty output with the same roots returns that
\* output again.
C11_FocusIdempotent ==
    (FocusDone /\ output # <<>>) => focus_process(output, types) = output

\* the names the definitions of a document carry (a schema block has none)
DefinedNames(doc) == {d.name : d \in {x \in Range(doc) : x.def # "SchemaDefinition"}}

\* C13: a root that is not the name of any definition of the schema contributes
\* nothing: the output equals the output for the roots without such names.
C13_UndefinedRootsContributeNothing ==
    FocusDone =>
        output = focus_process(schema,
                     SelectSeq(types, LAMBDA t: t \in DefinedNames(schema)))

\* every name that occurs in a document: the names of its definitions, the root
\* types a schema block gives, the base types of fields and of arguments, the
\* members of unions and the entries of implements lists
OccurringNames(doc) ==
    DefinedNames(doc)
    \cup UNION {Range(d.query) \cup Range(d.mutation) \cup Range(d.subscription)
                \cup FieldBases(d)
                \cup UNION {{named_type(a.value_type) : a \in Range(f.arguments)} :
                               f \in {x \in Range(d.fields) : d.kind # "InputObject"}}
                \cup Range(d.types)
                \cup Range(d.implements_interfaces) : d \in Range(doc)}

\* C14: when none of the given root names occurs in the schema, the result of
\* focus is the empty string.
C14_NoRootOccursEmpty ==
    (FocusDone /\ Range(types) \cap OccurringNames(schema) = {}) => output = <<>>

\* roots are given, the schema has definitions, and no root occurs in it
C14_Witness ==
    /\ FocusDone
    /\ types # <<>>
    /\ TypeDefsOf(schema) # {}
    /\ Range(types) \cap OccurringNames(schema) = {}
    /\ output = <<>>

\* C15: every root that is the name of a type definition of the schema has that
\* definition in the output of focus.
C15_RootDefinitionsOutput ==
    FocusDone =>
        \A d \in TypeDefsOf(schema) : d.name \in Range(types) => d \in Range(output)

\* C16: the output of focus holds type definitions only: no schema block, no
\* directive definition, no type extension.
C16_OnlyTypeDefinitions ==
    FocusDone => \A d \in Range(output) : d.def = "TypeDefinition"

\* C18: the output of focus is the input schema with some definitions left out,
\* each retained definition whole and in its place, and it is the same for the
\* roots given in the opposite order.
C18_FocusKeepsOrderAndContent ==
    FocusDone =>
        /\ IsSubSeq(output, schema)
        /\ output = focus_process(schema, Reverse(types))

\* two roots, the first defined after the second in the schema, both retained
\* next to a type that is stripped
C18_Witness ==
    /\ FocusDone
    /\ Len(types) = 2
    /\ \E a, b \in DOMAIN output :
          a < b /\ output[a].name = types[2] /\ output[b].name = types[1]
    /\ Len(output) < Len(schema)
    /\ \E d \in Range(output) : d.implements_interfaces # <<>>

\* the base types of the arguments of the fields of an Object or Interface
ArgumentBases(d) ==
    IF d.kind \in {"Object", "Interface"}
    THEN UNION {{named_type(a.value_type) : a \in Range(f.arguments)} :
                   f \in Range(d.fields)}
    ELSE {}

\* C23: focus does not follow field arguments: an input object, enum or scalar that
\* is the type of an argument of a field in the output, is not a root and is not
\* referred to by a field type or union member of any other definition in the
\* output, is not in the output.
C23_ArgumentsNotFollowed ==
    FocusDone =>
        \A t \in TypeDefsOf(schema) :
            ( /\ t.kind \in {"InputObject", "Enum", "Scalar"}
              /\ \E d \in TypeDefsOf(output) : t.name \in ArgumentBases(d)
              /\ t.name \notin Range(types)
              /\ \A d \in TypeDefsOf(output) \ {t} :
                    t.name \notin FieldBases(d) \cup Range(d.types) )
            => t \notin Range(output)

\* the output has a field with an argument whose type the schema defines and the
\* output lacks
C23_Witness ==
    /\ FocusDone
    /\ \E d \in TypeDefsOf(output) : \E n \in ArgumentBases(d) :
          /\ n \in TypeNamesOf(schema)
          /\ n \notin TypeNamesOf(output)

-----------------------------------------------------------------------------
(* sort: the inputs                                                        *)

SortPool ==
    << ObjectType("User", <<>>, <<Field("id", NonNullType(NamedType("ID")), <<>>)>>),
       ScalarType("UserID"),
       InterfaceType("node", <<>>, <<Field("id", NonNullType(NamedType("ID")), <<>>)>>),
       EnumType("Company", <<"ACTIVE", "INACTIVE">>),
       DirectiveDefinition("auth"),
       SchemaDefinition(Some("Query"), None, None),
       SchemaDefinition(Some("Root"), None, None),
       TypeExtension("User"),
       TypeExtension("Company") >>

\* the definitions of the pool in any order, none twice
SortSchemas ==
    {[k \in DOMAIN p |-> SortPool[p[k]]] :
        p \in {q \in UNION {[1..n -> DOMAIN SortPool] : n \in 0..MaxSortDefs} :
                  \A a, b \in DOMAIN q : a # b => q[a] # q[b]}}

-----------------------------------------------------------------------------
(* sort::process                                                           *)

\* the bytes of the names of the pool: a String is ordered as its UTF-8 bytes
NameBytes(n) ==
    CASE n = "" -> <<>>
      [] n = "User" -> <<85, 115, 101, 114>>
      [] n = "UserID" -> <<85, 115, 101, 114, 73, 68>>
      [] n = "node" -> <<110, 111, 100, 101>>
      [] n = "Company" -> <<67, 111, 109, 112, 97, 110, 121>>
      [] n = "auth" -> <<97, 117, 116, 104>>

\* Ord of [u8]: the first differing byte decides, a proper prefix is smaller
RECURSIVE BytesLess(_, _)
BytesLess(a, b) ==
    IF b = <<>> THEN FALSE
    ELSE IF a = <<>> THEN TRUE
    ELSE IF Head(a) # Head(b) THEN Head(a) < Head(b)
    ELSE BytesLess(Tail(a), Tail(b))

\* Ord of (u8, String): the category decides, then the name
KeyLess(k1, k2) ==
    \/ k1[1] < k2[1]
    \/ k1[1] = k2[1] /\ BytesLess(NameBytes(k1[2]), NameBytes(k2[2]))

\* lines 13-31: the sort key of a definition
SortKeyOf(d) ==
    << CASE d.def = "SchemaDefinition" -> 0
         [] d.def = "DirectiveDefinition" -> 1
         [] d.def = "TypeDefinition" -> 2
         [] d.def = "TypeExtension" -> 3,
       CASE d.def = "SchemaDefinition" -> ""
         [] d.def = "DirectiveDefinition" -> d.name
         [] d.def = "TypeDefinition" -> schema_type_definition_name(d)[1]
         [] d.def = "TypeExtension" -> "" >>

\* mutant: a pair goes before the pairs of equal key already placed
InsertBeforeEqual(sorted, e) ==
    LET before == SelectSeq(sorted, LAMBDA x: KeyLess(x[2], e[2]))
        after == SelectSeq(sorted, LAMBDA x: ~KeyLess(x[2], e[2]))
    IN before \o <<e>> \o after

\* a pair goes behind the pairs already placed whose key is not greater
InsertByKey(sorted, e) ==
    LET before == SelectSeq(sorted, LAMBDA x: ~KeyLess(e[2], x[2]))
        after == SelectSeq(sorted, LAMBDA x: KeyLess(e[2], x[2]))
    IN before \o <<e>> \o after

\* line 35, slice::sort_by_key: the stable sort of the pairs by their keys
RECURSIVE sort_by_key(_)
sort_by_key(pairs) ==
    IF pairs = <<>> THEN <<>>
    ELSE InsertByKey(sort_by_key(SubSeq(pairs, 1, Len(pairs) - 1)), pairs[Len(pairs)])

\* sort::process as a function of its input
sort_process(doc) ==
    LET sorted == sort_by_key([k \in DOMAIN doc |-> <<k, SortKeyOf(doc[k])>>])
    IN [k \in DOMAIN sorted |-> doc[sorted[k][1]]]

-----------------------------------------------------------------------------
(* sort: the command as a state machine                                    *)

SortInit ==
    /\ schema \in SortSchemas
    /\ pc = "sort"
    /\ i = 1
    /\ indices_with_keys = <<>>
    /\ output = <<>>
    /\ focusIdle
    /\ pruneIdle
    /\ walkIdle

\* lines 9-32: the next definition is paired with its index and its key
SortKey ==
    /\ pc = "sort"
    /\ i <= Len(schema)
    /\ indices_with_keys' = Append(indices_with_keys, <<i, SortKeyOf(schema[i])>>)
    /\ i' = i + 1
    /\ UNCHANGED <<schema, pc, output, focusVars, pruneVars, walkVars>>

\* line 35: the pairs are sorted by their keys
SortByKey ==
    /\ pc = "sort"
    /\ i > Len(schema)
    /\ indices_with_keys' = sort_by_key(indices_with_keys)
    /\ pc' = "sorted"
    /\ UNCHANGED <<schema, i, output, focusVars, pruneVars, walkVars>>

\* lines 38-48: the definitions are printed in the order of the sorted indices
SortPrint ==
    /\ pc = "sorted"
    /\ output' = [k \in DOMAIN indices_with_keys |-> schema[indices_with_keys[k][1]]]
    /\ pc' = "done"
    /\ UNCHANGED <<schema, i, indices_with_keys, focusVars, pruneVars, walkVars>>

SortNext ==
    \/ SortKey
    \/ SortByKey
    \/ SortPrint

SpecSort == SortInit /\ [][SortNext]_vars

SortDone == pc = "done" /\ round = 0 /\ types = <<>>

\* the steps of the command compute sort::process
SortStepsAgree == SortDone => output = sort_process(schema)

-----------------------------------------------------------------------------
(* sort: properties of the output                                          *)

\* the key the order is stated in: schema block, directive definition, type
\* definition, type extension; the name of a directive or type definition
ClaimedKey(d) ==
    << CASE d.def = "SchemaDefinition" -> 0
         [] d.def = "DirectiveDefinition" -> 1
         [] d.def = "TypeDefinition" -> 2
         [] d.def = "TypeExtension" -> 3,
       IF d.def \in {"DirectiveDefinition", "TypeDefinition"} THEN d.name ELSE "" >>

\* the place of a definition in the input
PlaceOf(d) == CHOOSE k \in DOMAIN schema : schema[k] = d

\* C19: the output of sort is a permutation of the input definitions with keys
\* (category, name) that never decrease, and definitions of equal key are in the
\* order the input has them.
C19_SortIsStableSort ==
    SortDone =>
        /\ Len(output) = Len(schema)
        /\ Range(output) = Range(schema)
        /\ \A a, b \in DOMAIN output : a < b =>
              /\ ~KeyLess(ClaimedKey(output[b]), ClaimedKey(output[a]))
              /\ ClaimedKey(output[a]) = ClaimedKey(output[b])
                    => PlaceOf(output[a]) < PlaceOf(output[b])

\* two type extensions given against the order of their names stay as given, and
\* a type definition given behind them is moved in front of them
C19_Witness ==
    /\ SortDone
    /\ output # schema
    /\ \E a, b \in DOMAIN output :
          /\ a < b
          /\ output[a] = TypeExtension("User")
          /\ output[b] = TypeExtension("Company")
    /\ \E d \in TypeDefsOf(schema) : PlaceOf(d) = Len(schema)

-----------------------------------------------------------------------------
(* walker: the inputs                                                      *)

WalkPool ==
    << ObjectType("Query", <<>>,
           <<Field("user", NamedType("User"), <<>>),
             Field("node", NamedType("Node"), <<>>),
             Field("search", ListType(NamedType("Result")),
                   <<InputValue("filter", NamedType("Filter"))>>)>>),
       InterfaceType("Node", <<>>,
           <<Field("id", NamedType("ID"), <<>>),
             Field("self", NamedType("Node"), <<>>),
             Field("owner", NamedType("User"), <<>>)>>),
       ObjectType("User", <<"Node">>,
           <<Field("id", NamedType("ID"), <<>>),
             Field("friend", NamedType("User"), <<>>),
             Field("role", NamedType("Role"), <<>>),
             Field("boss", NamedType("Admin"), <<>>)>>),
       ObjectType("Admin", <<"Node">>,
           <<Field("id", NamedType("ID"), <<>>),
             Field("peer", NamedType("Node"), <<>>),
             Field("reports", ListType(NamedType("User")), <<>>)>>),
       UnionType("Result", <<"User", "Hit", "Result">>),
       UnionType("Hit", <<"Result", "Admin">>),
       EnumType("Role", <<"ADMIN", "GUEST">>),
       InputObjectType("Filter",
           <<InputValue("role", NamedType("Role")),
             InputValue("and", ListType(NonNullType(NamedType("Filter"))))>>),
       ScalarType("ID"),
       DirectiveDefinition("auth"),
       SchemaDefinition(Some("Query"), None, None),
       TypeExtension("User") >>

WalkSchemas == SubSeqsUpTo(WalkPool, MaxWalkDefs)

-----------------------------------------------------------------------------
(* util::SchemaWalker with the default hooks and child selectors           *)

\* lines 59-68 and 175: interface_map.get(n), the names of the objects implementing n
interface_map_get(doc, n) ==
    {d.name : d \in {x \in TypeDefsOf(doc) :
                        x.kind = "Object" /\ n \in Range(x.implements_interfaces)}}

\* the orders in which the iteration of a HashSet can yield its elements
OrdersOf(S) ==
    {q \in [1..Cardinality(S) -> S] : \A a, b \in DOMAIN q : a # b => q[a] # q[b]}

\* the orders of the implementers, for a definition that is an interface
ImplementerOrders(doc, td) ==
    IF td # None /\ td[1].kind = "Interface"
    THEN OrdersOf(interface_map_get(doc, td[1].name))
    ELSE {<<>>}

\* one call of a visit hook: the hook, the type at the end of the path, the subject
Hook(h, owner, n) == <<h, owner, n>>

\* lines 121-124, 160-163: the hooks called for a field before its type is walked
FieldHooks(owner, f) ==
    <<Hook("visit_field", owner, f.name)>>
    \o [k \in DOMAIN f.arguments |-> Hook("visit_input_value", owner, f.arguments[k].name)]

\* the loops of walk_type_definition: for each child the hooks called for it and the
\* name given to walk_type_by_name
ChildrenOf(ty, order) ==
    CASE ty.kind = "Object" ->
            [k \in DOMAIN ty.fields |->
                [call |-> named_type(ty.fields[k].field_type),
                 hooks |-> FieldHooks(ty.name, ty.fields[k])]]
      [] ty.kind = "InputObject" ->
            [k \in DOMAIN ty.fields |->
                [call |-> named_type(ty.fields[k].value_type),
                 hooks |-> <<Hook("visit_input_value", ty.name, ty.fields[k].name)>>]]
      [] ty.kind = "Interface" ->
            [k \in DOMAIN ty.fields |->
                [call |-> named_type(ty.fields[k].field_type),
                 hooks |-> FieldHooks(ty.name, ty.fields[k])]]
            \o [k \in DOMAIN order |-> [call |-> order[k], hooks |-> <<>>]]
      [] ty.kind = "Union" ->
            [k \in DOMAIN ty.types |-> [call |-> ty.types[k], hooks |-> <<>>]]
      [] OTHER -> <<>>

\* a call that has not returned: the function, the name it works on, the children
\* of its loops, the next child, and the hooks it calls after the loops
Frame(fn, name, children, after) ==
    [fn |-> fn, name |-> name, children |-> children, k |-> 1, after |-> after]

\* lines 106-198, the call of walk_type_definition up to its loops; st is
\* [visited, call_stack, hooks]
CallWalkTypeDefinition(ty, st, order) ==
    CASE ty.kind \in {"Object", "InputObject"} ->
            IF ty.name \in st.visited THEN st
            ELSE [st EXCEPT
                    !.visited = @ \cup {ty.name},
                    !.call_stack = Append(@,
                        Frame("walk_type_definition", ty.name, ChildrenOf(ty, order),
                              IF ty.kind = "Object"
                              THEN [k \in DOMAIN ty.implements_interfaces |->
                                       Hook("visit_implements_interface", ty.name,
                                            ty.implements_interfaces[k])]
                              ELSE <<>>))]
      [] ty.kind \in {"Interface", "Union"} ->
            [st EXCEPT !.call_stack = Append(@,
                Frame("walk_type_definition", ty.name, ChildrenOf(ty, order), <<>>))]
      [] ty.kind = "Enum" ->
            IF ty.name \in st.visited THEN st
            ELSE [st EXCEPT
                    !.visited = @ \cup {ty.name},
                    !.hooks = @ \o [k \in DOMAIN ty.values |->
                                       Hook("visit_enum_value", ty.name, ty.values[k])]]
      [] ty.kind = "Scalar" -> st

\* mutant: walk_type_by_name goes on when the name is in visited already
CallWalkTypeByNameUnguarded(name, st, doc, order) ==
    LET s1 == [st EXCEPT
                 !.visited = @ \cup {name},
                 !.call_stack = Append(@, Frame("walk_type_by_name", name, <<>>, <<>>))]
        ty == TypeMapGet(doc, name)
    IN IF ty = None THEN s1
       ELSE CallWalkTypeDefinition(ty[1],
               [s1 EXCEPT !.hooks = Append(@, Hook("visit_type_definition", name, name))],
               order)

\* lines 200-217, the call of walk_type_by_name up to the loops of the definition
CallWalkTypeByName(name, st, doc, order) ==
    IF name \in st.visited THEN st
    ELSE LET s1 == [st EXCEPT
                      !.visited = @ \cup {name},
                      !.call_stack = Append(@, Frame("walk_type_by_name", name, <<>>, <<>>))]
             ty == TypeMapGet(doc, name)
         IN IF ty = None THEN s1
            ELSE CallWalkTypeDefinition(ty[1],
                    [s1 EXCEPT !.hooks = Append(@, Hook("visit_type_definition", name, name))],
                    order)

-----------------------------------------------------------------------------
(* walker: walk_schema as a state machine                                  *)

WalkInit ==
    /\ schema \in WalkSchemas
    /\ pc = "walk"
    /\ i = 1
    /\ visited = {}
    /\ call_stack = <<>>
    /\ hooks = <<>>
    /\ output = <<>>
    /\ focusIdle
    /\ pruneIdle
    /\ sortIdle

WalkState == [visited |-> visited, call_stack |-> call_stack, hooks |-> hooks]

\* lines 73-75 and 78-104: walk_definition of the next definition of the document
WalkDefinition ==
    /\ pc = "walk"
    /\ call_stack = <<>>
    /\ i <= Len(schema)
    /\ LET def == schema[i]
       IN IF def.def = "TypeDefinition"
          THEN \E order \in ImplementerOrders(schema, Some(def)) :
                  LET st == CallWalkTypeDefinition(def,
                                [WalkState EXCEPT !.hooks =
                                    Append(@, Hook("visit_type_definition",
                                                   def.name, def.name))],
                                order)
                  IN /\ visited' = st.visited
                     /\ call_stack' = st.call_stack
                     /\ hooks' = st.hooks
          ELSE /\ hooks' = Append(hooks,
                     Hook(CASE def.def = "SchemaDefinition" -> "visit_schema_definition"
                            [] def.def = "DirectiveDefinition" ->
                                   "visit_directive_definition"
                            [] def.def = "TypeExtension" -> "visit_type_extension",
                          "", def.name))
               /\ UNCHANGED <<visited, call_stack>>
    /\ i' = i + 1
    /\ UNCHANGED <<schema, pc, output, focusVars, pruneVars, sortVars>>

\* one iteration of a loop of walk_type_definition: the hooks of the child, then
\* walk_type_by_name of its name
WalkChild ==
    /\ pc = "walk"
    /\ call_stack # <<>>
    /\ LET top == call_stack[Len(call_stack)]
       IN /\ top.fn = "walk_type_definition"
          /\ top.k <= Len(top.children)
          /\ LET c == top.children[top.k]
                 st0 == [visited |-> visited,
                         call_stack |-> [call_stack EXCEPT ![Len(call_stack)].k = @ + 1],
                         hooks |-> hooks \o c.hooks]
             IN \E order \in ImplementerOrders(schema, TypeMapGet(schema, c.call)) :
                   LET st == CallWalkTypeByName(c.call, st0, schema, order)
                   IN /\ visited' = st.visited
                      /\ call_stack' = st.call_stack
                      /\ hooks' = st.hooks
    /\ UNCHANGED <<schema, pc, i, output, focusVars, pruneVars, sortVars>>

\* walk_type_definition returns after its loops (lines 135-137 for an object)
WalkTypeDefinitionReturn ==
    /\ pc = "walk"
    /\ call_stack # <<>>
    /\ LET top == call_stack[Len(call_stack)]
       IN /\ top.fn = "walk_type_definition"
          /\ top.k > Len(top.children)
          /\ hooks' = hooks \o top.after
    /\ call_stack' = SubSeq(call_stack, 1, Len(call_stack) - 1)
    /\ UNCHANGED <<schema, pc, i, visited, output, focusVars, pruneVars, sortVars>>

\* line 219: walk_type_by_name removes its name from visited and returns
WalkTypeByNameReturn ==
    /\ pc = "walk"
    /\ call_stack # <<>>
    /\ LET top == call_stack[Len(call_stack)]
       IN /\ top.fn = "walk_type_by_name"
          /\ visited' = visited \ {top.name}
    /\ call_stack' = SubSeq(call_stack, 1, Len(call_stack) - 1)
    /\ UNCHANGED <<schema, pc, i, hooks, output, focusVars, pruneVars, sortVars>>

\* lines 73-76: the loop over the definitions is over, walk_schema returns
WalkSchemaReturn ==
    /\ pc = "walk"
    /\ call_stack = <<>>
    /\ i > Len(schema)
    /\ pc' = "done"
    /\ UNCHANGED <<schema, i, visited, call_stack, hooks, output,
                   focusVars, pruneVars, sortVars>>

WalkNext ==
    \/ WalkDefinition
    \/ WalkChild
    \/ WalkTypeDefinitionReturn
    \/ WalkTypeByNameReturn
    \/ WalkSchemaReturn

SpecWalk == WalkInit /\ [][WalkNext]_vars

-----------------------------------------------------------------------------
(* walker: properties of a walk                                            *)

\* C20: the visited set is insert-once and permanent: no step of a walk removes a
\* name from it.
C20_VisitedPermanent == [][visited \subseteq visited']_vars

WalkDone == pc = "done" /\ round = 0 /\ types = <<>> /\ indices_with_keys = <<>>

\* how often a hook call is in the log
TimesCalled(h) == Cardinality({k \in DOMAIN hooks : hooks[k] = h})

\* C21: in one walk visit_type_definition is called exactly once for each Object,
\* InputObject, Enum and Scalar definition of the document, and visit_field exactly
\* once for each field of each Object.
C21_HooksCalledOnce ==
    (WalkDone /\ schema # <<>>) =>
        \A d \in TypeDefsOf(schema) :
            /\ d.kind \in {"Object", "InputObject", "Enum", "Scalar"} =>
                  TimesCalled(Hook("visit_type_definition", d.name, d.name)) = 1
            /\ d.kind = "Object" =>
                  \A f \in Range(d.fields) :
                      TimesCalled(Hook("visit_field", d.name, f.name)) = 1

\* every name a walk can meet: the names of the type definitions, the base types of
\* fields, the members of unions and the implementing objects
WalkNames(doc) ==
    TypeNamesOf(doc)
    \cup UNION {FieldBases(d) \cup Range(d.types) : d \in TypeDefsOf(doc)}

\* the calls of walk_type_by_name that have not returned, outermost first
ByNameCalls == SelectSeq(call_stack, LAMBDA fr: fr.fn = "walk_type_by_name")

\* the depth of the recursion stays within the number of names: the unreturned
\* calls of walk_type_by_name work on distinct names, and each has at most one
\* call of walk_type_definition above it
WalkDepthBounded ==
    /\ \A a, b \in DOMAIN ByNameCalls : a # b => ByNameCalls[a].name # ByNameCalls[b].name
    /\ Len(ByNameCalls) <= Cardinality(WalkNames(schema))
    /\ Len(call_stack) <= 2 * Len(ByNameCalls) + 1

SpecWalkFair == SpecWalk /\ WF_vars(WalkNext)

\* C22: every walk terminates, cyclic documents included, and the depth of the
\* recursion never exceeds the number of distinct type names plus a constant.
C22_WalkTerminates == <>(pc = "done") /\ []WalkDepthBounded

\* a walk that has ended after it entered, by name, an interface that has a field
\* of its own type and implementers with fields of its type, and unions that list
\* themselves and each other, with objects that refer to each other
C22_Witness ==
    /\ WalkDone
    /\ \E d, o, q \in TypeDefsOf(schema) :
          /\ d.kind = "Interface" /\ d.name \in FieldBases(d)
          /\ o.kind = "Object" /\ d.name \in Range(o.implements_interfaces)
          /\ q.kind = "Object" /\ d.name \in Range(q.implements_interfaces)
          /\ o.name \in FieldBases(d) /\ d.name \in FieldBases(q)
          /\ TimesCalled(Hook("visit_type_definition", d.name, d.name)) >= 2
    /\ \E u, v \in TypeDefsOf(schema) :
          /\ u.kind = "Union" /\ v.kind = "Union" /\ u # v
          /\ u.name \in Range(u.types)
          /\ v.name \in Range(u.types) /\ u.name \in Range(v.types)
          /\ TimesCalled(Hook("visit_type_definition", u.name, u.name)) >= 2
    /\ \E o, q \in TypeDefsOf(schema) :
          /\ o.kind = "Object" /\ q.kind = "Object" /\ o # q
          /\ q.name \in FieldBases(o) /\ o.name \in FieldBases(q)

====
